---- MODULE Spec2Model ----
(***************************************************************************)
(* A model of fpl-ai-assist: fetch_fpl_context.py (the pipeline: fetch,    *)
(* squad analysis, transfer advisor, summary, data-quality warnings,       *)
(* restructured context, template population) and populate_prompt.py (the  *)
(* companion entry point that populates a template from a context file).   *)
(*                                                                         *)
(* Representation.  JSON objects are records, JSON lists are sequences,    *)
(* Python's None is the record None.  A Python float is an IEEE-754 double *)
(* and is held as the record [tenths |-> n, eps |-> e], which stands for   *)
(* the double of value n/10 + e/(10 * 2^56): n / 10.0 for an integer count *)
(* of tenths n (costs, prices, bank) and float() of the catalog's          *)
(* one-decimal strings (ep_next) are the double nearest to n/10, and a sum *)
(* or difference of two doubles is rounded to the nearest double, ties to  *)
(* the even one, as the float arithmetic of Python does.                   *)
(* Texts are sequences of characters (one-character strings); a file is   *)
(* the record [text |-> ...] or [json |-> ...], a missing file is None.    *)
(* A fetched JSON list is [list |-> <<...>>], and a JSON boolean that may  *)
(* also be null is [bool |-> b].                                           *)
(***************************************************************************)
EXTENDS Integers, Sequences, FiniteSets, TLC

VARIABLES
    pc,                 \* position of the running entry point
    args,               \* command-line arguments of fetch_fpl_context.main
    boot,               \* result of the mandatory catalog fetch
    fetched,            \* results of the six tolerant fetches, by name
    context,            \* the context dict of main (flat, then restructured)
    squad_analysis,     \* main's local squad_analysis
    suggestions,        \* result of suggest_transfers
    suggestion_cap,     \* max_suggestions of the call of suggest_transfers
    summary,            \* main's local summary
    warnings,           \* main's local warnings
    outfile,            \* content of the written context file
    variables,          \* main's local variables (extract_prompt_variables)
    template,           \* content of the template file
    prompt,             \* content of the populated prompt file
    companion,          \* outcome of populate_prompt.main on outfile
    failure             \* why the run ended in failure

vars == <<pc, args, boot, fetched, context, squad_analysis, suggestions,
          suggestion_cap, summary, warnings, outfile, variables, template, prompt, companion,
          failure>>

-----------------------------------------------------------------------------
(* Values *)

None == [none |-> TRUE]

\* the value try_get_json returns when get_json raises
ErrorSentinel == [_error |-> "request failed"]

\* Python's "_error" in d for a dict d
HasKey(d, k) == k \in DOMAIN d

\* 2^k modulo m
RECURSIVE Pow2Mod(_, _)
Pow2Mod(k, m) == IF k = 0 THEN 1 % m ELSE (2 * Pow2Mod(k - 1, m)) % m

\* the distance between neighbouring doubles at the value n/10 + e/(10 * 2^56)
\* with n > 0, in units of 2^-56 (1 below 0.125, g from 5g/40 up to 5g/20)
RECURSIVE Spacing(_, _, _)
Spacing(n, e, g) ==
    IF 4 * n > 5 * g \/ (4 * n = 5 * g /\ e >= 0) THEN Spacing(n, e, 2 * g) ELSE g

\* the double nearest to a value that lies x units of 1/10 of 2^-56 above a
\* multiple of 20 spacings g of the doubles, ties to even
Snap(n, e, g, x) ==
    LET r == x % (10 * g)
    IN  IF r = 0 THEN [tenths |-> n, eps |-> e]
        ELSE IF r < 5 * g \/ (r = 5 * g /\ x < 10 * g)
             THEN [tenths |-> n, eps |-> e - r]
             ELSE [tenths |-> n, eps |-> e + 10 * g - r]

\* the double nearest to n/10 + e/(10 * 2^56) where the doubles are g apart
InBinade(n, e, g) ==
    Snap(n, e, g, ((n % (20 * g)) * Pow2Mod(56, 20 * g) + e) % (20 * g))

\* the double nearest to n/10 + e/(10 * 2^56) for n > 0
NearestDouble(n, e) == InBinade(n, e, Spacing(n, e, 1))

\* the double nearest to a value of sign s
Signed(s, n, e) ==
    [tenths |-> s * NearestDouble(s * n, s * e).tenths,
     eps |-> s * NearestDouble(s * n, s * e).eps]

\* the result of a float operation whose exact value is n/10 + e/(10 * 2^56)
RoundToDouble(n, e) ==
    IF n = 0 THEN [tenths |-> 0, eps |-> e]
    ELSE IF n > 0 THEN NearestDouble(n, e)
    ELSE Signed(-1, n, e)

\* n / 10.0 for an integer count of tenths n
Div10(n) == RoundToDouble(n, 0)

\* x + y, x - y, x <= y and x > y on floats
FloatAdd(x, y) == RoundToDouble(x.tenths + y.tenths, x.eps + y.eps)
FloatSub(x, y) == RoundToDouble(x.tenths - y.tenths, x.eps - y.eps)
FloatLeq(x, y) == x.tenths < y.tenths \/ (x.tenths = y.tenths /\ x.eps <= y.eps)
FloatGt(x, y) == ~FloatLeq(x, y)

\* an integer that orders the floats of the runs as FloatLeq does (their
\* eps is below 2^14 in size)
FloatRank(x) == x.tenths * 32768 + x.eps

\* float(s) if s else 0.0, for a catalog metric that is None or a decimal
ToFloat(v) == IF v = None THEN Div10(0) ELSE v

RECURSIVE SumSeq(_)
SumSeq(s) == IF s = <<>> THEN 0 ELSE Head(s) + SumSeq(Tail(s))

\* list.sort(key=..., reverse=...) is stable: the element at index i goes
\* behind every element that sorts strictly before it and behind every
\* earlier element with an equal key.  keys[i] is the integer key of s[i].
RankOf(keys, i, reverse) ==
    Cardinality({j \in DOMAIN keys :
        \/ (IF reverse THEN keys[j] > keys[i] ELSE keys[j] < keys[i])
        \/ (keys[j] = keys[i] /\ j < i)})

StableSort(s, keys, reverse) ==
    [k \in 1..Len(s) |->
        s[CHOOSE i \in 1..Len(s) : RankOf(keys, i, reverse) = k - 1]]

-----------------------------------------------------------------------------
(* Entity Mapper *)

\* the projection of a raw catalog element onto the allow-list
map_player(e) ==
    [id |-> e.id, web_name |-> e.web_name, team |-> e.team,
     now_cost |-> e.now_cost, element_type |-> e.element_type,
     status |-> e.status, ep_next |-> e.ep_next]

\* {x["id"]: x for x in entities}.get(id): the last entity with the id
LookupById(entities, id) ==
    LET hits == {i \in 1..Len(entities) : entities[i].id = id}
    IN  IF hits = {} THEN None
        ELSE entities[CHOOSE i \in hits : \A j \in hits : j <= i]

build_player_lookup(players) == [id \in {players[i].id : i \in 1..Len(players)}
                                    |-> LookupById(players, id)]

build_team_lookup(teams) == [id \in {teams[i].id : i \in 1..Len(teams)}
                                |-> LookupById(teams, id)]

\* dict.get(id) on a lookup table
Get(lookup, id) == IF id \in DOMAIN lookup THEN lookup[id] ELSE None

\* team["short_name"] if team else f"Team{id}"
TeamName(teams_by_id, team_id) ==
    IF Get(teams_by_id, team_id) # None
    THEN teams_by_id[team_id].short_name
    ELSE "Team" \o ToString(team_id)

-----------------------------------------------------------------------------
(* Squad Analyzer *)

position_names(element_type) ==
    CASE element_type = 1 -> "GK"
      [] element_type = 2 -> "DEF"
      [] element_type = 3 -> "MID"
      [] element_type = 4 -> "FWD"
      [] OTHER -> "UNK"

\* a total that adds up the selling prices instead
PickCostMutant(pick, player) == pick.selling_price

\* the cost a resolved pick adds to total_cost: total_cost += player["now_cost"]
PickCost(pick, player) == player.now_cost

\* a count that starts again at 1 for a club seen before
CountClubMutant(club_counts, team_name) ==
    [t \in DOMAIN club_counts \cup {team_name} |->
        IF t = team_name THEN 1 ELSE club_counts[t]]

\* club_counts[team_name] = club_counts.get(team_name, 0) + 1
CountClub(club_counts, team_name) ==
    [t \in DOMAIN club_counts \cup {team_name} |->
        IF t = team_name
        THEN (IF t \in DOMAIN club_counts THEN club_counts[t] ELSE 0) + 1
        ELSE club_counts[t]]

player_analysis(pick, player, team_name) ==
    [element_id |-> pick.element,
     position |-> pick.position,
     name |-> player.web_name,
     team |-> team_name,
     position_type |-> position_names(pick.element_type),
     cost |-> Div10(player.now_cost),
     selling_price |-> Div10(pick.selling_price),
     is_captain |-> pick.is_captain,
     is_vice_captain |-> pick.is_vice_captain,
     multiplier |-> pick.multiplier,
     ep_next |-> ToFloat(player.ep_next),
     status |-> player.status]

\* the loop over picks; acc holds the loop's locals
RECURSIVE AnalyzePicks(_, _, _, _)
AnalyzePicks(picks, players_by_id, teams_by_id, acc) ==
    IF picks = <<>> THEN acc
    ELSE LET pick == Head(picks)
             player == Get(players_by_id, pick.element)
         IN  IF player = None
             THEN AnalyzePicks(Tail(picks), players_by_id, teams_by_id, acc)
             ELSE LET team_name == TeamName(teams_by_id, player.team)
                  IN  AnalyzePicks(Tail(picks), players_by_id, teams_by_id,
                        [squad_analysis |->
                            Append(acc.squad_analysis,
                                   player_analysis(pick, player, team_name)),
                         captain_id |-> IF pick.is_captain THEN pick.element
                                        ELSE acc.captain_id,
                         vice_id |-> IF pick.is_vice_captain THEN pick.element
                                     ELSE acc.vice_id,
                         club_counts |-> CountClub(acc.club_counts, team_name),
                         total_cost |-> acc.total_cost + PickCost(pick, player)])

\* a starting eleven without the captain's multipliers
StartingXiMutant(squad) == SelectSeq(squad, LAMBDA p : p.multiplier = 1)

\* [p for p in squad_analysis if p["multiplier"] > 0]
StartingXi(squad) == SelectSeq(squad, LAMBDA p : p.multiplier > 0)

\* [p for p in squad_analysis if p["multiplier"] == 0]
Bench(squad) == SelectSeq(squad, LAMBDA p : p.multiplier = 0)

get_current_squad_analysis(ctx) ==
    LET my_team == ctx.team_state.my_team IN
    IF HasKey(my_team, "_error") THEN None
    ELSE IF ~HasKey(my_team, "picks") THEN None     \* KeyError, caught
    ELSE
    LET acc == AnalyzePicks(my_team.picks,
                            build_player_lookup(ctx.market.players),
                            build_team_lookup(ctx.market.teams),
                            [squad_analysis |-> <<>>, captain_id |-> None,
                             vice_id |-> None, club_counts |-> <<>>,
                             total_cost |-> 0])
        squad == StableSort(acc.squad_analysis,
                            [i \in 1..Len(acc.squad_analysis) |->
                                acc.squad_analysis[i].position], FALSE)
    IN  [squad |-> squad,
         captain_id |-> acc.captain_id,
         vice_id |-> acc.vice_id,
         club_counts |-> acc.club_counts,
         total_squad_value |-> Div10(acc.total_cost),
         starting_xi |-> StartingXi(squad),
         bench |-> Bench(squad)]

-----------------------------------------------------------------------------
(* Transfer Advisor *)

ClubLimit == 3              \* if new_club_count > 3
TopAlternatives == 3        \* alternatives[:3]
MinImprovement == 5         \* if ep_diff > 0.5, in tenths
DefaultMaxSuggestions == 5  \* max_suggestions=5

\* a minimum that keeps the last of the tied players
WeakestMutant(current_players) ==
    current_players[CHOOSE i \in 1..Len(current_players) :
        /\ \A j \in 1..Len(current_players) :
              FloatLeq(current_players[i].ep_next, current_players[j].ep_next)
        /\ \A j \in (i + 1)..Len(current_players) :
              FloatGt(current_players[j].ep_next, current_players[i].ep_next)]

\* min(current_players, key=lambda x: x["ep_next"]): the first minimum
Weakest(current_players) ==
    current_players[CHOOSE i \in 1..Len(current_players) :
        /\ \A j \in 1..Len(current_players) :
              FloatLeq(current_players[i].ep_next, current_players[j].ep_next)
        /\ \A j \in 1..(i - 1) :
              FloatGt(current_players[j].ep_next, current_players[i].ep_next)]

\* the filter of the candidate pool
IsAlternative(p, pos_type, current_squad_ids, weakest, bank) ==
    /\ p.element_type = pos_type
    /\ p.id \notin current_squad_ids
    /\ p.status = "a"
    /\ FloatLeq(Div10(p.now_cost), FloatAdd(weakest.selling_price, bank))

\* alternatives.sort(key=ep_next, reverse=True)
SortAlternatives(alternatives) ==
    StableSort(alternatives,
               [i \in 1..Len(alternatives) |-> FloatRank(ToFloat(alternatives[i].ep_next))],
               TRUE)

\* an advisor without the club constraint
ClubLimitOkMutant(club_counts, alt_team, weakest_team) == TRUE

\* the club constraint: FALSE when the loop continues past the candidate
ClubLimitOk(club_counts, alt_team, weakest_team) ==
    IF alt_team # weakest_team
    THEN LET new_club_count ==
                (IF alt_team \in DOMAIN club_counts THEN club_counts[alt_team] ELSE 0) + 1
         IN  ~(new_club_count > ClubLimit)
    ELSE TRUE

\* if ep_diff > 0.5
MeaningfulImprovement(ep_diff) == FloatGt(ep_diff, Div10(MinImprovement))

\* "feasible": cost_diff <= bank
Feasible(cost_diff, bank) == FloatLeq(cost_diff, bank)

Suggestion(weakest, alt, alt_team, bank) ==
    LET cost_diff == FloatSub(Div10(alt.now_cost), weakest.selling_price)
        ep_diff == FloatSub(ToFloat(alt.ep_next), weakest.ep_next)
    IN  [out_player |-> weakest.name,
         out_id |-> weakest.element_id,
         in_player |-> alt.web_name,
         in_id |-> alt.id,
         position_type |-> weakest.position_type,
         cost_change |-> cost_diff,
         ep_improvement |-> ep_diff,
         out_team |-> weakest.team,
         in_team |-> alt_team,
         feasible |-> Feasible(cost_diff, bank)]

\* the loop over alternatives[:3] for one position
RECURSIVE CheckAlternatives(_, _, _, _, _, _)
CheckAlternatives(alts, weakest, teams_by_id, club_counts, bank, acc) ==
    IF alts = <<>> THEN acc
    ELSE LET alt == Head(alts)
             alt_team == TeamName(teams_by_id, alt.team)
             s == Suggestion(weakest, alt, alt_team, bank)
         IN  CheckAlternatives(Tail(alts), weakest, teams_by_id, club_counts, bank,
                IF /\ ClubLimitOk(club_counts, alt_team, weakest.team)
                   /\ MeaningfulImprovement(s.ep_improvement)
                THEN Append(acc, s) ELSE acc)

\* the body of the loop over position_groups
PositionSuggestions(pos_type, squad, all_players, teams_by_id, club_counts, bank) ==
    LET current_players ==
            SelectSeq(squad, LAMBDA p : p.position_type = position_names(pos_type))
    IN  IF current_players = <<>> THEN <<>>
        ELSE LET weakest == Weakest(current_players)
                 current_squad_ids == {squad[i].element_id : i \in 1..Len(squad)}
                 alternatives ==
                    SortAlternatives(SelectSeq(all_players, LAMBDA p :
                        IsAlternative(p, pos_type, current_squad_ids, weakest, bank)))
                 top == SubSeq(alternatives, 1,
                               IF Len(alternatives) < TopAlternatives
                               THEN Len(alternatives) ELSE TopAlternatives)
             IN  CheckAlternatives(top, weakest, teams_by_id, club_counts, bank, <<>>)

\* a ranking by the improvement alone
RankingKeyMutant(s, span) == FloatRank(s.ep_improvement)

\* suggestions.sort(key=(feasible, ep_improvement), reverse=True)
\* the pair key as one integer: feasible dominates, then the improvement
RankingKey(s, span) ==
    (IF s.feasible THEN 2 * span + 1 ELSE 0) + FloatRank(s.ep_improvement)

SortSuggestions(found) ==
    LET span == 1 + SumSeq([i \in 1..Len(found) |->
                    IF FloatRank(found[i].ep_improvement) < 0
                    THEN -FloatRank(found[i].ep_improvement)
                    ELSE FloatRank(found[i].ep_improvement)])
    IN  StableSort(found, [i \in 1..Len(found) |-> RankingKey(found[i], span)], TRUE)

\* suggestions[:max_suggestions]
Truncate(found, max_suggestions) ==
    SubSeq(found, 1, IF Len(found) < max_suggestions THEN Len(found) ELSE max_suggestions)

suggest_transfers(ctx, max_suggestions) ==
    LET sa == get_current_squad_analysis(ctx)
        history == ctx.team_state.history
    IN  IF sa = None THEN <<>>
        ELSE IF ~HasKey(history, "current") THEN <<>>      \* KeyError, caught
        ELSE IF history.current = <<>> THEN <<>>           \* IndexError, caught
        ELSE
        LET bank == Div10(history.current[Len(history.current)].bank)
            teams_by_id == build_team_lookup(ctx.market.teams)
            found == PositionSuggestions(1, sa.squad, ctx.market.players,
                                         teams_by_id, sa.club_counts, bank)
                  \o PositionSuggestions(2, sa.squad, ctx.market.players,
                                         teams_by_id, sa.club_counts, bank)
                  \o PositionSuggestions(3, sa.squad, ctx.market.players,
                                         teams_by_id, sa.club_counts, bank)
                  \o PositionSuggestions(4, sa.squad, ctx.market.players,
                                         teams_by_id, sa.club_counts, bank)
        IN  Truncate(SortSuggestions(found), max_suggestions)

-----------------------------------------------------------------------------
(* Fixture Difficulty Estimator *)

DefaultDifficulty == 3      \* fixture.get("team_h_difficulty", 3)

\* a rating that counts a missing key as nothing
DifficultyMutant(fixture, key) ==
    IF HasKey(fixture, key) THEN fixture[key] ELSE 0

\* fixture.get(key, 3)
Difficulty(fixture, key) ==
    IF HasKey(fixture, key) THEN fixture[key] ELSE DefaultDifficulty

\* one side of a fixture added to the two accumulators
AddSide(acc, team, difficulty) ==
    LET seen == team \in DOMAIN acc.team_difficulties
        order == IF seen THEN acc.order ELSE Append(acc.order, team)
    IN  [order |-> order,
         team_difficulties |->
            [t \in DOMAIN acc.team_difficulties \cup {team} |->
                IF t = team
                THEN (IF seen THEN acc.team_difficulties[t] ELSE 0) + difficulty
                ELSE acc.team_difficulties[t]],
         team_fixture_counts |->
            [t \in DOMAIN acc.team_fixture_counts \cup {team} |->
                IF t = team
                THEN (IF seen THEN acc.team_fixture_counts[t] ELSE 0) + 1
                ELSE acc.team_fixture_counts[t]]]

\* the loop over fixtures
RECURSIVE AccumulateFixtures(_, _)
AccumulateFixtures(fixtures, acc) ==
    IF fixtures = <<>> THEN acc
    ELSE LET fixture == Head(fixtures)
         IN  AccumulateFixtures(Tail(fixtures),
                IF HasKey(fixture, "event")
                THEN AddSide(AddSide(acc, fixture.team_h,
                                     Difficulty(fixture, "team_h_difficulty")),
                             fixture.team_a,
                             Difficulty(fixture, "team_a_difficulty"))
                ELSE acc)

\* round(total / count, 2), in hundredths; an exact tie goes to the even digit
Round2(total, count) ==
    LET q == (total * 100) \div count
        r == (total * 100) % count
    IN  [hundredths |-> IF 2 * r < count THEN q
                        ELSE IF 2 * r > count THEN q + 1
                        ELSE IF q % 2 = 0 THEN q ELSE q + 1]

\* the loop that fills avg_difficulties, by team name; a later team with the
\* same name overwrites an earlier one
RECURSIVE Averages(_, _, _, _)
Averages(order, acc, teams_by_id, avg_difficulties) ==
    IF order = <<>> THEN avg_difficulties
    ELSE LET team_id == Head(order)
             team_name == TeamName(teams_by_id, team_id)
             entry == [avg_difficulty |-> Round2(acc.team_difficulties[team_id],
                                                 acc.team_fixture_counts[team_id]),
                       fixture_count |-> acc.team_fixture_counts[team_id]]
         IN  Averages(Tail(order), acc, teams_by_id,
                [n \in DOMAIN avg_difficulties \cup {team_name} |->
                    IF n = team_name THEN entry ELSE avg_difficulties[n]])

calculate_fixtures_difficulty(ctx) ==
    LET acc == AccumulateFixtures(ctx.fixtures.next6_gw,
                    [order |-> <<>>, team_difficulties |-> <<>>,
                     team_fixture_counts |-> <<>>])
    IN  Averages(acc.order, acc, build_team_lookup(ctx.market.teams), <<>>)

-----------------------------------------------------------------------------
(* Texts *)

\* an exception that leaves the function it is raised in
Raised(what) == [raised |-> what]
IsRaised(v) == HasKey(v, "raised")

Digit(d) == <<"0", "1", "2", "3", "4", "5", "6", "7", "8", "9">>[d + 1]

\* str(n) for an integer n
RECURSIVE Str(_)
Str(n) == IF n < 0 THEN <<"-">> \o Str(-n)
          ELSE IF n < 10 THEN <<Digit(n)>>
          ELSE Str(n \div 10) \o <<Digit(n % 10)>>

\* f"{x:.1f}" for the float nearest to a count of tenths
Format1(x) ==
    IF x.tenths < 0
    THEN <<"-">> \o Str((-x.tenths) \div 10) \o <<".">> \o <<Digit((-x.tenths) % 10)>>
    ELSE Str(x.tenths \div 10) \o <<".">> \o <<Digit(x.tenths % 10)>>

\* ", ".join(names)
RECURSIVE Join(_)
Join(names) == IF names = <<>> THEN <<>>
               ELSE IF Len(names) = 1 THEN names[1]
               ELSE names[1] \o <<",", " ">> \o Join(Tail(names))

NoneAvailableText == <<"N", "o", "n", "e", " ", "a", "v", "a", "i", "l", "a", "b", "l", "e">>
NoneText == <<"N", "o", "n", "e">>

\* the keys of the variable map, in the order the dict holds them
VariableNames == <<"GW", "BANK", "FT", "CHIPS_AVAILABLE">>

NameText(var_name) ==
    CASE var_name = "GW" -> <<"G", "W">>
      [] var_name = "BANK" -> <<"B", "A", "N", "K">>
      [] var_name = "FT" -> <<"F", "T">>
      [] var_name = "CHIPS_AVAILABLE" ->
            <<"C", "H", "I", "P", "S", "_", "A", "V", "A", "I", "L", "A", "B", "L", "E">>

\* f"{{{{{var_name}}}}}"
Placeholder(name_text) == <<"{", "{">> \o name_text \o <<"}", "}">>

\* a replacement that matches the placeholder without its last character
RECURSIVE ReplaceOffByOne(_, _, _)
ReplaceOffByOne(text, old, new) ==
    IF Len(text) < Len(old) THEN text
    ELSE IF SubSeq(text, 1, Len(old) - 1) = SubSeq(old, 1, Len(old) - 1)
         THEN new \o ReplaceOffByOne(SubSeq(text, Len(old) + 1, Len(text)), old, new)
         ELSE <<Head(text)>> \o ReplaceOffByOne(Tail(text), old, new)

\* str.replace(old, new): every non-overlapping occurrence, leftmost first
RECURSIVE Replace(_, _, _)
Replace(text, old, new) ==
    IF Len(text) < Len(old) THEN text
    ELSE IF SubSeq(text, 1, Len(old)) = old
         THEN new \o Replace(SubSeq(text, Len(old) + 1, Len(text)), old, new)
         ELSE <<Head(text)>> \o Replace(Tail(text), old, new)

\* the loop over variables.items()
RECURSIVE Substitute(_, _, _)
Substitute(text, names, vs) ==
    IF names = <<>> THEN text
    ELSE Substitute(Replace(text, Placeholder(NameText(Head(names))), vs[Head(names)]),
                    Tail(names), vs)

-----------------------------------------------------------------------------
(* Template Populator: populate_prompt.py *)

\* [chip["name"] for chip in chips if chip["status_for_entry"] == "available"]
AvailableChips(chips) ==
    LET avail == SelectSeq(chips, LAMBDA chip : chip.status_for_entry = "available")
    IN  [i \in 1..Len(avail) |-> avail[i].name]

extract_data_from_context(context_data) ==
    IF ~HasKey(context_data, "meta") THEN Raised("KeyError: 'meta'")
    ELSE IF ~HasKey(context_data, "team_state") THEN Raised("KeyError: 'team_state'")
    ELSE
    LET my_team == context_data.team_state.my_team IN
    IF ~HasKey(my_team, "transfers") THEN Raised("KeyError: 'transfers'")
    ELSE IF ~HasKey(my_team, "chips") THEN Raised("KeyError: 'chips'")
    ELSE
    LET available_chips == AvailableChips(my_team.chips) IN
    [GW |-> Str(context_data.meta.gameweek),
     BANK |-> Format1(Div10(my_team.transfers.bank)),
     FT |-> Str(my_team.transfers.limit - my_team.transfers.made),
     CHIPS_AVAILABLE |-> IF available_chips # <<>> THEN Join(available_chips)
                         ELSE NoneText]

populate_template(template_content, vs) ==
    Substitute(template_content, VariableNames, vs)

\* populate_prompt.main on a context file and a template file
populate_prompt_main(context_file, template_file) ==
    LET vs == extract_data_from_context(context_file.json) IN
    IF IsRaised(vs) THEN [status |-> "raised", what |-> vs.raised]
    ELSE IF template_file = None
         THEN [status |-> "raised", what |-> "FileNotFoundError"]
    ELSE [status |-> "written", variables |-> vs,
          text |-> populate_template(template_file.text, vs)]

-----------------------------------------------------------------------------
(* Context Assembler and Template Populator: fetch_fpl_context.py *)

MinCatalogSize == 500       \* if len(players) < 500

AuthWarning == "CRITICAL: Team data unavailable - authentication required for accurate analysis"
SquadWarning == "CRITICAL: Current squad analysis failed - cannot provide transfer recommendations"
FixturesWarning == "WARNING: Current gameweek fixtures missing"
EventWarning == "INFO: Event status unknown - deadline may have passed"
CatalogWarning == "WARNING: Player catalog appears incomplete"

\* Python truth of a fetched JSON value: a dict with a key is true, a list is
\* true when it has an element
Truthy(v) == IF HasKey(v, "list") THEN v.list # <<>> ELSE v # None

validate_data_quality(ctx) ==
    (IF HasKey(ctx.team_state.my_team, "_error") THEN <<AuthWarning>> ELSE <<>>)
    \o (IF ~(HasKey(ctx, "analysis") /\ ctx.analysis.current_squad # None)
        THEN <<SquadWarning>> ELSE <<>>)
    \o (IF ~Truthy(ctx.fixtures.this_gw) THEN <<FixturesWarning>> ELSE <<>>)
    \o (IF ctx.event.finished = None THEN <<EventWarning>> ELSE <<>>)
    \o (IF Len(ctx.market.players) < MinCatalogSize THEN <<CatalogWarning>> ELSE <<>>)

\* limit - made when the team detail is there, else the default of 1
FreeTransfers(my_team) ==
    IF ~HasKey(my_team, "_error") /\ HasKey(my_team, "transfers")
    THEN my_team.transfers.limit - my_team.transfers.made ELSE 1

\* next((p for p in starting_xi if p[flag]), None), as "name (team)"
FirstFlagged(starting_xi, flag) ==
    LET hits == {i \in 1..Len(starting_xi) : starting_xi[i][flag]}
    IN  IF hits = {} THEN "None set"
        ELSE LET p == starting_xi[CHOOSE i \in hits : \A j \in hits : i <= j]
             IN  p.name \o " (" \o p.team \o ")"

\* the body of create_summary_section's try block
SummaryBody(ctx) ==
    LET history == ctx.team_state.history
        my_team == ctx.team_state.my_team
    IN  IF ~HasKey(history, "current") THEN Raised("'current'")
        ELSE IF history.current = <<>> THEN Raised("list index out of range")
        ELSE
        LET sa == get_current_squad_analysis(ctx) IN
        [gameweek |-> ctx.meta.gameweek,
         authentication_status |->
            IF ~HasKey(my_team, "_error") /\ HasKey(my_team, "transfers")
            THEN "authenticated"
            ELSE "unauthenticated - using default assumptions",
         bank_available |-> Div10(history.current[Len(history.current)].bank),
         free_transfers |-> FreeTransfers(my_team),
         chips_available |->
            IF ~HasKey(my_team, "_error") /\ HasKey(my_team, "chips")
            THEN AvailableChips(my_team.chips) ELSE <<>>,
         squad_summary |->
            IF sa = None THEN None
            ELSE [total_players |-> Len(sa.squad),
                  starting_xi_count |-> Len(sa.starting_xi),
                  bench_count |-> Len(sa.bench),
                  captain |-> FirstFlagged(sa.starting_xi, "is_captain"),
                  vice_captain |-> FirstFlagged(sa.starting_xi, "is_vice_captain"),
                  total_value |-> sa.total_squad_value,
                  club_distribution |-> sa.club_counts],
         data_quality_warnings |-> <<>>]

\* a summary section without the except clause
CreateSummaryUncaught(ctx) == SummaryBody(ctx)

\* try: ... except Exception as e: return {"error": str(e)}
create_summary_section(ctx) ==
    LET r == SummaryBody(ctx)
    IN  IF IsRaised(r) THEN [error |-> r.raised] ELSE r

\* ", ".join(chips_available) if chips_available else "None available"
ChipsText(chips_available) ==
    IF chips_available # <<>> THEN Join(chips_available) ELSE NoneAvailableText

extract_prompt_variables(ctx) ==
    IF HasKey(ctx, "IMPORTANT_READ_FIRST")
    THEN LET s == ctx.IMPORTANT_READ_FIRST.summary IN
         IF ~HasKey(s, "gameweek") THEN None                \* KeyError, caught
         ELSE [GW |-> Str(s.gameweek),
               BANK |-> Format1(s.bank_available),
               FT |-> Str(s.free_transfers),
               CHIPS_AVAILABLE |-> ChipsText(s.chips_available)]
    ELSE LET history == ctx.team_state.history
             my_team == ctx.team_state.my_team
         IN  IF ~HasKey(history, "current") THEN None       \* KeyError, caught
             ELSE IF history.current = <<>> THEN Raised("IndexError")
             ELSE [GW |-> Str(ctx.meta.gameweek),
                   BANK |-> Format1(Div10(history.current[Len(history.current)].bank)),
                   FT |-> Str(FreeTransfers(my_team)),
                   CHIPS_AVAILABLE |->
                      ChipsText(IF ~HasKey(my_team, "_error") /\ HasKey(my_team, "chips")
                                THEN AvailableChips(my_team.chips) ELSE <<>>)]

\* the file populate_prompt_template writes, None when it returns False
populate_prompt_template(template_file, vs) ==
    IF template_file = None THEN None
    ELSE [text |-> Substitute(template_file.text, VariableNames, vs)]

-----------------------------------------------------------------------------
(* fetch_fpl_context.main, step by step *)

\* next6_ids: range(gw, min(gw + 6, max(event ids) + 1))
WindowSize == 6

MaxEventId(events) ==
    CHOOSE m \in {events[i].id : i \in 1..Len(events)} :
        \A i \in 1..Len(events) : events[i].id <= m

Next6Ids(gw, events) ==
    LET hi == IF gw + WindowSize < MaxEventId(events) + 1
              THEN gw + WindowSize ELSE MaxEventId(events) + 1
    IN  gw..(hi - 1)

\* next((e for e in events if e["id"] == gw), None)
FindEvent(events, gw) ==
    LET hits == {i \in 1..Len(events) : events[i].id = gw}
    IN  IF hits = {} THEN None
        ELSE events[CHOOSE i \in hits : \A j \in hits : i <= j]

\* the fixtures of the upcoming window, [] when the fetch gave no list
Next6Fixtures(fixtures_upcoming, gw, events) ==
    IF HasKey(fixtures_upcoming, "list")
    THEN SelectSeq(fixtures_upcoming.list,
                   LAMBDA fx : HasKey(fx, "event") /\ fx.event \in Next6Ids(gw, events))
    ELSE <<>>

\* the context dict main builds first
AssembleContext(a, b, f) ==
    LET event == FindEvent(b.events, a.gw) IN
    [meta |-> [manager_id |-> a.manager, gameweek |-> a.gw],
     event |-> [deadline_time |-> IF event # None THEN event.deadline_time ELSE None,
                is_current |-> IF event # None THEN event.is_current ELSE None,
                is_next |-> IF event # None THEN event.is_next ELSE None,
                finished |-> IF event # None THEN event.finished ELSE None],
     team_state |-> [public_picks |-> f.picks,
                     history |-> f.history,
                     my_team |-> f.myteam],
     market |-> [players |-> [i \in 1..Len(b.elements) |-> map_player(b.elements[i])],
                 teams |-> b.teams,
                 positions |-> b.element_types],
     fixtures |-> [this_gw |-> f.fixtures_this,
                   next6_gw |-> Next6Fixtures(f.fixtures_upcoming, a.gw, b.events)],
     live |-> f.live]

\* context["analysis"] = {...}, set when the squad analysis is there
WithAnalysis(ctx, sa) ==
    IF sa = None THEN ctx
    ELSE [k \in DOMAIN ctx \cup {"analysis"} |->
            IF k = "analysis"
            THEN [current_squad |-> sa,
                  fixtures_difficulty |-> calculate_fixtures_difficulty(ctx),
                  transfer_suggestions |-> suggest_transfers(ctx, DefaultMaxSuggestions)]
            ELSE ctx[k]]

\* summary["data_quality_warnings"] = warnings, when there are any
WithWarnings(s, w) ==
    IF w = <<>> THEN s
    ELSE [k \in DOMAIN s \cup {"data_quality_warnings"} |->
            IF k = "data_quality_warnings" THEN w ELSE s[k]]

\* the restructured context that replaces the first one
Restructure(ctx, s, sa) ==
    [IMPORTANT_READ_FIRST |-> [summary |-> s, current_squad_details |-> sa],
     gameweek_info |-> [meta |-> ctx.meta, event |-> ctx.event],
     team_constraints |->
        [bank_and_transfers |->
            [current_bank |-> IF HasKey(s, "bank_available")
                              THEN s.bank_available ELSE Div10(0),
             free_transfers |-> IF HasKey(s, "free_transfers")
                                THEN s.free_transfers ELSE 1,
             chips_available |-> IF HasKey(s, "chips_available")
                                 THEN s.chips_available ELSE <<>>],
         squad_rules |->
            [max_per_club |-> ClubLimit,
             current_club_counts |-> IF sa # None THEN sa.club_counts ELSE <<>>]],
     detailed_data |-> [team_state |-> ctx.team_state,
                        market |-> ctx.market,
                        fixtures |-> ctx.fixtures,
                        live |-> ctx.live,
                        analysis |-> IF HasKey(ctx, "analysis") THEN ctx.analysis
                                     ELSE <<>>]]

-----------------------------------------------------------------------------
(* What the remote API may answer *)

MaxGw == 3                  \* --gw ranges over 1..MaxGw

Bool(b) == [bool |-> b]

Teams == <<[id |-> 1, short_name |-> "ARS"], [id |-> 2, short_name |-> "CHE"]>>

Events ==
    <<[id |-> 1, deadline_time |-> "2025-08-15T17:30:00Z", is_current |-> Bool(TRUE),
       is_next |-> Bool(FALSE), finished |-> Bool(FALSE)],
      [id |-> 2, deadline_time |-> "2025-08-22T17:30:00Z", is_current |-> Bool(FALSE),
       is_next |-> Bool(TRUE), finished |-> Bool(FALSE)]>>

\* a raw catalog element; news is a field outside the allow-list
Element(id, team, now_cost, element_type, status, ep_next) ==
    [id |-> id, web_name |-> "p" \o ToString(id), team |-> team,
     now_cost |-> now_cost, element_type |-> element_type, status |-> status,
     ep_next |-> ep_next, news |-> ""]

Pick(element, position, element_type, selling_price, multiplier) ==
    [element |-> element, position |-> position, element_type |-> element_type,
     selling_price |-> selling_price, multiplier |-> multiplier,
     is_captain |-> multiplier >= 2, is_vice_captain |-> position = 2]

Catalog(elements) ==
    [events |-> Events, teams |-> Teams, elements |-> elements,
     element_types |-> <<>>]

\* the catalog and the squad of the pipeline runs; team 3 is in no team list
PipelineElements ==
    <<Element(1, 1, 50, 1, "a", Div10(20)),
      Element(2, 1, 55, 2, "a", Div10(30)),
      Element(3, 2, 60, 2, "a", None),
      Element(4, 3, 45, 3, "d", Div10(25)),
      Element(5, 2, 50, 2, "a", Div10(45))>>

PipelinePicks ==
    <<Pick(1, 1, 1, 50, 1), Pick(2, 2, 2, 50, 2), Pick(3, 3, 2, 60, 1),
      Pick(4, 4, 3, 45, 0)>>

Chip(name, status) == [name |-> name, status_for_entry |-> status]

ChipLists ==
    {<<>>,
     <<Chip(<<"3", "x", "c">>, "played"), Chip(<<"b", "b", "o", "o", "s", "t">>, "available")>>,
     <<Chip(<<"3", "x", "c">>, "available"), Chip(<<"b", "b", "o", "o", "s", "t">>, "available")>>}

MyTeamPayloads ==
    {[picks |-> PipelinePicks,
      transfers |-> [limit |-> l, made |-> m, bank |-> 20],
      chips |-> c] : l \in {1, 2}, m \in {0, 1}, c \in ChipLists}

HistoryPayloads == {[current |-> <<>>], [current |-> <<[bank |-> 5], [bank |-> 15]>>]}

Fixture(event, team_h, team_a, team_h_difficulty, team_a_difficulty) ==
    [event |-> event, team_h |-> team_h, team_a |-> team_a,
     team_h_difficulty |-> team_h_difficulty, team_a_difficulty |-> team_a_difficulty]

FixtureLists == {[list |-> <<>>], [list |-> <<Fixture(1, 1, 2, 2, 4), Fixture(2, 2, 1, 3, 2)>>]}

Responses(name) ==
    CASE name = "fixtures_this" -> FixtureLists
      [] name = "fixtures_upcoming" -> {[list |-> <<Fixture(1, 1, 2, 2, 4), Fixture(2, 3, 1, 3, 2)>>]}
      [] name = "live" -> {[elements |-> <<>>]}
      [] name = "picks" -> {[picks |-> PipelinePicks]}
      [] name = "history" -> HistoryPayloads
      [] name = "myteam" -> MyTeamPayloads

NothingFetched ==
    [fixtures_this |-> None, fixtures_upcoming |-> None, live |-> None,
     picks |-> None, history |-> None, myteam |-> None]

\* "GW {{GW}} {{BANK}} {{FT}} {{CHIPS_AVAILABLE}} {{UNKNOWN}}"
PipelineTemplate ==
    [text |-> <<"G", "W", " ">> \o Placeholder(<<"G", "W">>) \o <<" ">>
              \o Placeholder(<<"B", "A", "N", "K">>) \o <<" ">>
              \o Placeholder(<<"F", "T">>) \o <<" ">>
              \o Placeholder(NameText("CHIPS_AVAILABLE")) \o <<" ">>
              \o Placeholder(<<"U", "N", "K", "N", "O", "W", "N">>)]

-----------------------------------------------------------------------------
(* The pipeline: fetch_fpl_context.main, then populate_prompt.main on the  *)
(* context file it wrote                                                   *)

Init ==
    /\ pc = "fetch_catalog"
    /\ args \in [manager : {7}, gw : 1..MaxGw, populate_prompt : BOOLEAN]
    /\ boot = None
    /\ fetched = NothingFetched
    /\ context = None
    /\ squad_analysis = None
    /\ suggestions = <<>>
    /\ suggestion_cap = DefaultMaxSuggestions
    /\ summary = None
    /\ warnings = <<>>
    /\ outfile = None
    /\ variables = None
    /\ template = PipelineTemplate
    /\ prompt = None
    /\ companion = None
    /\ failure = "none"

\* boot = get_json("bootstrap-static/"): an exception here ends the run
FetchCatalog ==
    /\ pc = "fetch_catalog"
    /\ \/ /\ boot' = Catalog(PipelineElements)
          /\ pc' = "fetch_fixtures_this"
          /\ UNCHANGED failure
       \/ /\ pc' = "failed"
          /\ failure' = "catalog"
          /\ UNCHANGED boot
    /\ UNCHANGED <<args, fetched, context, squad_analysis, suggestions, suggestion_cap, summary,
                   warnings, outfile, variables, template, prompt, companion>>

\* one try_get_json call: a payload, or the error sentinel
Fetch(name, at, then) ==
    /\ pc = at
    /\ \E r \in Responses(name) \cup {ErrorSentinel} :
          fetched' = [fetched EXCEPT ![name] = r]
    /\ pc' = then
    /\ UNCHANGED <<args, boot, context, squad_analysis, suggestions, suggestion_cap, summary,
                   warnings, outfile, variables, template, prompt, companion, failure>>

FetchFixturesThis == Fetch("fixtures_this", "fetch_fixtures_this", "fetch_fixtures_upcoming")
FetchFixturesUpcoming == Fetch("fixtures_upcoming", "fetch_fixtures_upcoming", "fetch_live")
FetchLive == Fetch("live", "fetch_live", "fetch_picks")
FetchPicks == Fetch("picks", "fetch_picks", "fetch_history")
FetchHistory == Fetch("history", "fetch_history", "fetch_myteam")
FetchMyTeam == Fetch("myteam", "fetch_myteam", "assemble")

Assemble ==
    /\ pc = "assemble"
    /\ context' = AssembleContext(args, boot, fetched)
    /\ pc' = "analyze"
    /\ UNCHANGED <<args, boot, fetched, squad_analysis, suggestions, suggestion_cap, summary,
                   warnings, outfile, variables, template, prompt, companion, failure>>

AnalyzeSquad ==
    /\ pc = "analyze"
    /\ squad_analysis' = get_current_squad_analysis(context)
    /\ context' = WithAnalysis(context, squad_analysis')
    /\ pc' = "summarize"
    /\ UNCHANGED <<args, boot, fetched, suggestions, suggestion_cap, summary, warnings, outfile,
                   variables, template, prompt, companion, failure>>

\* summary = create_summary_section(context); an exception that left the
\* call would end the run
Summarize ==
    /\ pc = "summarize"
    /\ LET s == create_summary_section(context)
       IN  IF IsRaised(s)
           THEN pc' = "failed" /\ failure' = "summary" /\ UNCHANGED summary
           ELSE pc' = "validate" /\ summary' = s /\ UNCHANGED failure
    /\ UNCHANGED <<args, boot, fetched, context, squad_analysis, suggestions, suggestion_cap,
                   warnings, outfile, variables, template, prompt, companion>>

Validate ==
    /\ pc = "validate"
    /\ warnings' = validate_data_quality(context)
    /\ summary' = WithWarnings(summary, warnings')
    /\ pc' = "restructure"
    /\ UNCHANGED <<args, boot, fetched, context, squad_analysis, suggestions, suggestion_cap,
                   outfile, variables, template, prompt, companion, failure>>

RestructureContext ==
    /\ pc = "restructure"
    /\ context' = Restructure(context, summary, squad_analysis)
    /\ pc' = "write"
    /\ UNCHANGED <<args, boot, fetched, squad_analysis, suggestions, suggestion_cap, summary,
                   warnings, outfile, variables, template, prompt, companion, failure>>

\* json.dump to the output file; an OSError here ends the run
WriteOutfile ==
    /\ pc = "write"
    /\ \/ /\ outfile' = [json |-> context]
          /\ pc' = IF args.populate_prompt THEN "extract" ELSE "done"
          /\ UNCHANGED failure
       \/ /\ pc' = "failed"
          /\ failure' = "write"
          /\ UNCHANGED outfile
    /\ UNCHANGED <<args, boot, fetched, context, squad_analysis, suggestions, suggestion_cap,
                   summary, warnings, variables, template, prompt, companion>>

ExtractVariables ==
    /\ pc = "extract"
    /\ variables' = extract_prompt_variables(context)
    /\ pc' = IF variables' = None THEN "done" ELSE "populate"
    /\ UNCHANGED <<args, boot, fetched, context, squad_analysis, suggestions, suggestion_cap,
                   summary, warnings, outfile, template, prompt, companion, failure>>

\* populate_prompt_template; the template file may be missing
PopulatePrompt ==
    /\ pc = "populate"
    /\ \E file \in {template, None} : prompt' = populate_prompt_template(file, variables)
    /\ pc' = "done"
    /\ UNCHANGED <<args, boot, fetched, context, squad_analysis, suggestions, suggestion_cap,
                   summary, warnings, outfile, variables, template, companion, failure>>

\* populate_prompt.main run on the written context file and the same template
CompanionMain ==
    /\ pc = "done"
    /\ outfile # None
    /\ companion' = populate_prompt_main(outfile, template)
    /\ pc' = "companion_done"
    /\ UNCHANGED <<args, boot, fetched, context, squad_analysis, suggestions, suggestion_cap,
                   summary, warnings, outfile, variables, template, prompt, failure>>

Next ==
    \/ FetchCatalog
    \/ FetchFixturesThis
    \/ FetchFixturesUpcoming
    \/ FetchLive
    \/ FetchPicks
    \/ FetchHistory
    \/ FetchMyTeam
    \/ Assemble
    \/ AnalyzeSquad
    \/ Summarize
    \/ Validate
    \/ RestructureContext
    \/ WriteOutfile
    \/ ExtractVariables
    \/ PopulatePrompt
    \/ CompanionMain

Spec == Init /\ [][Next]_vars

-----------------------------------------------------------------------------
(* The Squad Analyzer on its own: get_current_squad_analysis for every     *)
(* squad of up to MaxPicks picks over a catalog with a pick of an unknown  *)
(* player (99) and a player of an unknown team (4, of team 3)              *)

MaxPicks == 3               \* picks in a squad of the analysis runs

SquadElements ==
    <<Element(1, 1, 50, 1, "a", Div10(20)),
      Element(2, 1, 55, 2, "a", Div10(30)),
      Element(3, 2, 60, 3, "a", None),
      Element(4, 3, 45, 4, "a", Div10(25))>>

SquadPickIds == {1, 2, 3, 4, 99}
Multipliers == {0, 1, 2, 3}

\* a pick sells for less than the player costs now
SellingPrice(id) == (IF id = 99 THEN 40 ELSE SquadElements[id].now_cost) - 5

CatalogType(id) == IF id = 99 THEN 2 ELSE SquadElements[id].element_type

\* an analysis run: main right after the context is assembled
AtAnalyze(b, f) ==
    /\ pc = "analyze"
    /\ args = [manager |-> 7, gw |-> 1, populate_prompt |-> FALSE]
    /\ boot = b
    /\ fetched = f
    /\ context = AssembleContext(args, b, f)
    /\ squad_analysis = None
    /\ suggestions = <<>>
    /\ suggestion_cap = DefaultMaxSuggestions
    /\ summary = None
    /\ warnings = <<>>
    /\ outfile = None
    /\ variables = None
    /\ template = PipelineTemplate
    /\ prompt = None
    /\ companion = None
    /\ failure = "none"

FetchedWith(myteam, history) ==
    [fixtures_this |-> [list |-> <<>>], fixtures_upcoming |-> [list |-> <<>>],
     live |-> ErrorSentinel, picks |-> ErrorSentinel,
     history |-> history, myteam |-> myteam]

SquadInit ==
    \/ \E n \in 0..MaxPicks :
         \E ids \in [1..n -> SquadPickIds], mult \in [1..n -> Multipliers] :
            /\ \A i, j \in 1..n : ids[i] = ids[j] => i = j
            /\ AtAnalyze(Catalog(SquadElements),
                   FetchedWith(
                     [picks |-> [i \in 1..n |->
                                   Pick(ids[i], i, CatalogType(ids[i]),
                                        SellingPrice(ids[i]), mult[i])],
                      transfers |-> [limit |-> 1, made |-> 0, bank |-> 0],
                      chips |-> <<>>],
                     [current |-> <<[bank |-> 0]>>]))
    \/ AtAnalyze(Catalog(SquadElements),
                 FetchedWith(ErrorSentinel, [current |-> <<[bank |-> 0]>>]))

SquadNext == AnalyzeSquad

SquadSpec == SquadInit /\ [][SquadNext]_vars

-----------------------------------------------------------------------------
(* The Transfer Advisor on its own: suggest_transfers for squads of        *)
(* SquadSize players (a goalkeeper and defenders), the first k of them at  *)
(* club 1 and the rest at club 2, and a catalog with three candidates; the *)
(* lineup positions follow the catalog's order or run against it           *)

SquadSize == 4              \* players in a squad of the advisor runs

EpChoices == {17, 30}
CandidateEp == {None, Div10(22), Div10(40)}
BankChoices == {0, 2, 10}
MaxSuggestionChoices == {1, DefaultMaxSuggestions}

TransferElements(k, ep, a, statusB, teamC) ==
    [i \in 1..SquadSize |->
        Element(i, IF i <= k THEN 1 ELSE 2, 50, IF i = 1 THEN 1 ELSE 2, "a",
                Div10(ep[i]))]
    \o <<Element(11, a.team, a.now_cost, 2, "a", a.ep_next),
         Element(12, 2, 50, 2, statusB, Div10(40)),
         Element(13, teamC, 45, 1, "a", Div10(35))>>

\* the squad listed last pick first with the lineup in the order of the
\* catalog, or listed in the catalog's order with the lineup against it
TransferPicks(against) ==
    [i \in 1..SquadSize |->
        LET id == IF against THEN i ELSE SquadSize + 1 - i
        IN  Pick(id, IF against THEN SquadSize + 1 - id ELSE id,
                 IF id = 1 THEN 1 ELSE 2, 50, 1)]

TransferInit ==
    \E k \in 0..SquadSize, ep \in [1..SquadSize -> EpChoices],
       a \in [team : {1, 2}, now_cost : {45, 52}, ep_next : CandidateEp],
       statusB \in {"a", "i"}, teamC \in {1, 2}, bank \in BankChoices,
       against \in BOOLEAN :
        /\ \A i \in 1..SquadSize : (i = 1 \/ i > 3) => ep[i] = (IF i = 1 THEN 17 ELSE 30)
        /\ AtAnalyze(Catalog(TransferElements(k, ep, a, statusB, teamC)),
               FetchedWith([picks |-> TransferPicks(against),
                            transfers |-> [limit |-> 1, made |-> 0, bank |-> bank],
                            chips |-> <<>>],
                           [current |-> <<[bank |-> bank]>>]))

\* a call of suggest_transfers(context, max_suggestions)
SuggestTransfers ==
    /\ pc = "analyze"
    /\ \E max_suggestions \in MaxSuggestionChoices :
          /\ suggestion_cap' = max_suggestions
          /\ suggestions' = suggest_transfers(context, max_suggestions)
    /\ squad_analysis' = get_current_squad_analysis(context)
    /\ pc' = "advised"
    /\ UNCHANGED <<args, boot, fetched, context, summary, warnings, outfile,
                   variables, template, prompt, companion, failure>>

TransferNext == SuggestTransfers

TransferSpec == TransferInit /\ [][TransferNext]_vars

-----------------------------------------------------------------------------
(* Template population on its own: both implementations of the             *)
(* substitution, for every template of up to MaxFragments fragments        *)

MaxFragments == 4           \* fragments in a template

Fragments ==
    {Placeholder(<<"G", "W">>), Placeholder(<<"U">>),
     <<"{", "{">>, <<"}", "}">>, <<"G", "W">>, <<"U">>, <<"}">>}

RECURSIVE Flatten(_)
Flatten(fs) == IF fs = <<>> THEN <<>> ELSE Head(fs) \o Flatten(Tail(fs))

VariableMaps ==
    {[GW |-> Str(g), BANK |-> Format1(Div10(15)), FT |-> Str(1),
      CHIPS_AVAILABLE |-> NoneAvailableText] : g \in {3, 12}}

TemplateInit ==
    \E n \in 0..MaxFragments : \E fs \in [1..n -> Fragments], vs \in VariableMaps :
        /\ pc = "populate"
        /\ args = [manager |-> 7, gw |-> 1, populate_prompt |-> TRUE]
        /\ boot = None
        /\ fetched = NothingFetched
        /\ context = None
        /\ squad_analysis = None
        /\ suggestions = <<>>
        /\ suggestion_cap = DefaultMaxSuggestions
        /\ summary = None
        /\ warnings = <<>>
        /\ outfile = None
        /\ variables = vs
        /\ template = [text |-> Flatten(fs)]
        /\ prompt = None
        /\ companion = None
        /\ failure = "none"

\* populate_prompt.populate_template on the same template and variables
PopulateTemplate ==
    /\ pc = "done"
    /\ outfile = None
    /\ companion' = [status |-> "written", variables |-> variables,
                     text |-> populate_template(template.text, variables)]
    /\ pc' = "companion_done"
    /\ UNCHANGED <<args, boot, fetched, context, squad_analysis, suggestions, suggestion_cap,
                   summary, warnings, outfile, variables, template, prompt, failure>>

TemplateNext == PopulatePrompt \/ PopulateTemplate

TemplateSpec == TemplateInit /\ [][TemplateNext]_vars

-----------------------------------------------------------------------------
(* The Fixture Difficulty Estimator on its own: main from the assembled    *)
(* context on, for every list of up to MaxFixtures upcoming fixtures among *)
(* teams 1, 2 (of the team list) and 3 (of no team list), with ratings     *)
(* present or missing, and a fixture outside the window                    *)

MaxFixtures == 3            \* fixtures in the fetched list of upcoming fixtures

\* a fixture of the API; a rating of 0 stands for a fixture without the key
RatedFixture(event, team_h, team_a, rating_h, rating_a) ==
    [k \in {"event", "team_h", "team_a"}
            \cup (IF rating_h # 0 THEN {"team_h_difficulty"} ELSE {})
            \cup (IF rating_a # 0 THEN {"team_a_difficulty"} ELSE {}) |->
        CASE k = "event" -> event
          [] k = "team_h" -> team_h
          [] k = "team_a" -> team_a
          [] k = "team_h_difficulty" -> rating_h
          [] k = "team_a_difficulty" -> rating_a]

Pairings == {<<1, 2>>, <<2, 1>>, <<1, 3>>, <<3, 2>>}

UpcomingFixtures ==
    {RatedFixture(1, pr[1], pr[2], rh, ra) : pr \in Pairings, rh \in {0, 2}, ra \in {0, 4}}
    \cup {RatedFixture(9, 1, 2, 5, 5)}

FixtureInit ==
    \E n \in 0..MaxFixtures : \E fs \in [1..n -> UpcomingFixtures] :
        AtAnalyze(Catalog(PipelineElements),
            [FetchedWith([picks |-> <<Pick(1, 1, 1, 50, 1)>>,
                          transfers |-> [limit |-> 1, made |-> 0, bank |-> 0],
                          chips |-> <<>>],
                         [current |-> <<[bank |-> 0]>>])
                EXCEPT !.fixtures_upcoming = [list |-> fs]])

FixtureNext == AnalyzeSquad

FixtureSpec == FixtureInit /\ [][FixtureNext]_vars

-----------------------------------------------------------------------------
(* Properties of the Squad Analyzer (SquadSpec) *)

RECURSIVE SumOver(_, _)
SumOver(S, f) ==
    IF S = {} THEN 0
    ELSE LET x == CHOOSE x \in S : TRUE IN f[x] + SumOver(S \ {x}, f)

\* the fetched picks, and those whose player id is an id of the catalog
FetchedPicks == fetched.myteam.picks
CatalogIds == {boot.elements[k].id : k \in 1..Len(boot.elements)}
ResolvedPicks == {i \in 1..Len(FetchedPicks) : FetchedPicks[i].element \in CatalogIds}
NowCostOf(id) == (CHOOSE e \in {boot.elements[k] : k \in 1..Len(boot.elements)} : e.id = id).now_cost

Analyzed == pc = "summarize" /\ squad_analysis # None

InSeq(x, s) == \E i \in 1..Len(s) : s[i] = x

\* C6: whenever the squad analysis returns a result, total_squad_value is one
\* tenth of the sum of the catalog cost now_cost over exactly the picks whose
\* player id resolves in the catalog; unresolved picks add nothing and the
\* selling price plays no part.
C6_TotalSquadValue ==
    Analyzed =>
        squad_analysis.total_squad_value =
            Div10(SumOver(ResolvedPicks,
                          [i \in ResolvedPicks |-> NowCostOf(FetchedPicks[i].element)]))

\* a squad with resolved and unresolved picks, whose selling prices add up to
\* another total than the catalog costs
C6_Witness ==
    /\ Analyzed
    /\ Cardinality(ResolvedPicks) >= 2
    /\ ResolvedPicks # 1..Len(FetchedPicks)
    /\ squad_analysis.total_squad_value.tenths > 0
    /\ SumOver(1..Len(FetchedPicks),
               [i \in 1..Len(FetchedPicks) |-> FetchedPicks[i].selling_price])
         # squad_analysis.total_squad_value.tenths

\* C7: whenever the squad analysis returns a result (every multiplier being
\* in {0,1,2,3}), starting_xi and bench partition squad: each squad entry is
\* in exactly one of them, in starting_xi when its multiplier is above 0 and
\* in bench when it is 0, and neither list has an entry that squad has not.
C7_Partition ==
    Analyzed =>
        LET sa == squad_analysis IN
        (\A i \in 1..Len(FetchedPicks) : FetchedPicks[i].multiplier \in {0, 1, 2, 3}) =>
        /\ \A i \in 1..Len(sa.squad) :
              /\ InSeq(sa.squad[i], sa.starting_xi) <=> sa.squad[i].multiplier > 0
              /\ InSeq(sa.squad[i], sa.bench) <=> sa.squad[i].multiplier = 0
              /\ InSeq(sa.squad[i], sa.starting_xi) # InSeq(sa.squad[i], sa.bench)
        /\ \A i \in 1..Len(sa.starting_xi) : InSeq(sa.starting_xi[i], sa.squad)
        /\ \A i \in 1..Len(sa.bench) : InSeq(sa.bench[i], sa.squad)
        /\ Len(sa.starting_xi) + Len(sa.bench) = Len(sa.squad)

\* a squad with a benched player, a starter and a triple captain
C7_Witness ==
    /\ Analyzed
    /\ squad_analysis.bench # <<>>
    /\ \E i, j \in 1..Len(squad_analysis.starting_xi) :
          /\ squad_analysis.starting_xi[i].multiplier = 3
          /\ squad_analysis.starting_xi[j].multiplier = 1

\* C8: whenever the squad analysis returns a result, the values of
\* club_counts add up to the number of resolved picks, the length of squad,
\* also with picks of unknown players and players of unknown teams.
C8_ClubCountsSum ==
    Analyzed =>
        /\ SumOver(DOMAIN squad_analysis.club_counts, squad_analysis.club_counts)
             = Len(squad_analysis.squad)
        /\ Len(squad_analysis.squad) = Cardinality(ResolvedPicks)

\* a squad with a pick of an unknown player and a player of a team that the
\* team list has not
C8_Witness ==
    /\ Analyzed
    /\ ResolvedPicks # 1..Len(FetchedPicks)
    /\ "Team3" \in DOMAIN squad_analysis.club_counts
    /\ Len(squad_analysis.squad) >= 2

-----------------------------------------------------------------------------
(* Properties of the Transfer Advisor (TransferSpec) *)

Advised == pc = "advised" /\ squad_analysis # None

\* the club (team id) of a catalog player
ClubOf(id) == (CHOOSE e \in {boot.elements[k] : k \in 1..Len(boot.elements)} : e.id = id).team

\* squad players of a club before any swap
ClubCountBefore(club) ==
    Cardinality({i \in 1..Len(squad_analysis.squad) :
                    ClubOf(squad_analysis.squad[i].element_id) = club})

\* squad players of the incoming player's club once s.out_id has made way
\* for s.in_id
ClubCountAfterSwap(s) ==
    Cardinality({i \in 1..Len(squad_analysis.squad) :
                    /\ squad_analysis.squad[i].element_id # s.out_id
                    /\ ClubOf(squad_analysis.squad[i].element_id) = ClubOf(s.in_id)}) + 1

\* C3: every suggestion of suggest_transfers leaves at most 3 squad players
\* of the incoming player's club after the swap, and improves the projected
\* points by more than 0.5.
C3_ClubLimitAndImprovement ==
    Advised =>
        \A i \in 1..Len(suggestions) :
            /\ ClubCountAfterSwap(suggestions[i]) <= ClubLimit
            /\ FloatGt(suggestions[i].ep_improvement, Div10(MinImprovement))

\* C3, as the advisor keeps it: the improvement every suggestion reports,
\* the float difference of the two ep_next, is above 0.5, and a swap never
\* raises a club's count above 3; a count above 3 after the swap is a count
\* the club already had, in a swap within that club.
C3_NoClubRaisedAboveLimit ==
    Advised =>
        \A i \in 1..Len(suggestions) :
            LET s == suggestions[i] IN
            /\ FloatGt(s.ep_improvement, Div10(MinImprovement))
            /\ \/ ClubCountAfterSwap(s) <= ClubLimit
               \/ /\ ClubOf(s.in_id) = ClubOf(s.out_id)
                  /\ ClubCountAfterSwap(s) = ClubCountBefore(ClubOf(s.in_id))

\* a suggestion that brings a third player of a club into the squad
C3_WitnessThird ==
    /\ Advised
    /\ \E i \in 1..Len(suggestions) :
          /\ ClubOf(suggestions[i].in_id) # ClubOf(suggestions[i].out_id)
          /\ ClubCountAfterSwap(suggestions[i]) = ClubLimit

\* the place of a player in the catalog
CatalogIndex(id) == CHOOSE k \in 1..Len(boot.elements) : boot.elements[k].id = id

\* squad[i] is the player suggestion s takes out, and no squad member of
\* its category has fewer projected points
IsWeakestOf(i, s) ==
    LET squad == squad_analysis.squad IN
    /\ squad[i].element_id = s.out_id
    /\ squad[i].position_type = s.position_type
    /\ \A j \in 1..Len(squad) :
          squad[j].position_type = s.position_type
              => FloatLeq(squad[i].ep_next, squad[j].ep_next)

\* the squad members of the category of squad[i] that tie with it
TiedWith(i) ==
    {j \in 1..Len(squad_analysis.squad) :
        /\ j # i
        /\ squad_analysis.squad[j].position_type = squad_analysis.squad[i].position_type
        /\ squad_analysis.squad[j].ep_next = squad_analysis.squad[i].ep_next}

\* C11: the outgoing player of every suggestion is a squad member of the
\* suggestion's category with the minimum ep_next of that category, and
\* among the squad members that tie on the minimum it is the one that comes
\* first in the catalog.
C11_WeakestFirstInCatalog ==
    Advised =>
        \A n \in 1..Len(suggestions) :
            \E i \in 1..Len(squad_analysis.squad) :
                /\ IsWeakestOf(i, suggestions[n])
                /\ \A j \in TiedWith(i) :
                      CatalogIndex(squad_analysis.squad[i].element_id)
                        < CatalogIndex(squad_analysis.squad[j].element_id)

\* C11, as the advisor keeps it: the outgoing player of every suggestion has
\* the minimum ep_next of its category in the squad, and among the squad
\* members that tie on the minimum it is the first of the squad list, which
\* is in the order of the lineup positions.
C11_WeakestFirstInSquad ==
    Advised =>
        /\ \A i, j \in 1..Len(squad_analysis.squad) :
              i < j => squad_analysis.squad[i].position <= squad_analysis.squad[j].position
        /\ \A n \in 1..Len(suggestions) :
              \E i \in 1..Len(squad_analysis.squad) :
                  /\ IsWeakestOf(i, suggestions[n])
                  /\ \A j \in TiedWith(i) : i < j

\* a suggestion that takes out one of several tied players, the first of the
\* lineup and not the first of the catalog
C11_Witness ==
    /\ Advised
    /\ \E n \in 1..Len(suggestions), i \in 1..Len(squad_analysis.squad) :
          /\ IsWeakestOf(i, suggestions[n])
          /\ TiedWith(i) # {}
          /\ \A j \in TiedWith(i) :
                /\ squad_analysis.squad[i].position < squad_analysis.squad[j].position
                /\ CatalogIndex(squad_analysis.squad[j].element_id)
                      < CatalogIndex(squad_analysis.squad[i].element_id)

\* suggestion s ranks no lower than suggestion t: feasible before
\* infeasible, and the larger improvement first among equally feasible ones
RanksNoLower(s, t) ==
    \/ s.feasible /\ ~t.feasible
    \/ s.feasible = t.feasible /\ FloatLeq(t.ep_improvement, s.ep_improvement)

\* the answer of the advisor to the same context when nothing is cut: no
\* more than TopAlternatives suggestions for each of the four categories
Uncut == suggest_transfers(context, 4 * TopAlternatives)

\* C13: the list suggest_transfers returns has at most max_suggestions
\* entries (5 by default) and is in descending (feasible, improvement)
\* order: every feasible suggestion precedes every infeasible one, and
\* among equally feasible ones the improvements do not increase; the list
\* is the head of the ranking of everything found, so no suggestion that
\* was cut ranks above one that was kept.
C13_RankedAndTruncated ==
    Advised =>
        LET all == Uncut
            kept == Len(suggestions)
        IN  /\ kept <= suggestion_cap
            /\ \A i, j \in 1..kept :
                  i < j => RanksNoLower(suggestions[i], suggestions[j])
            /\ kept <= Len(all)
            /\ kept < suggestion_cap => kept = Len(all)
            /\ suggestions = SubSeq(all, 1, kept)
            /\ \A i \in 1..kept, j \in (kept + 1)..Len(all) :
                  RanksNoLower(suggestions[i], all[j])

\* a call with max_suggestions 1 that found three suggestions: the one kept
\* is feasible, and one that was cut is infeasible with a larger improvement
\* than a feasible one
C13_Witness ==
    /\ Advised
    /\ suggestion_cap = 1
    /\ Len(suggestions) = 1
    /\ suggestions[1].feasible
    /\ LET all == Uncut
       IN  /\ Len(all) = 3
           /\ \E i, j \in 1..Len(all) :
                 /\ i < j
                 /\ all[i].feasible
                 /\ ~all[j].feasible
                 /\ FloatGt(all[j].ep_improvement, all[i].ep_improvement)

\* C14: every suggestion suggest_transfers returns has its feasible flag
\* true: the filter of the candidate pool (cost <= selling price + bank)
\* already gives cost delta <= bank, so no suggestion is marked infeasible.
C14_AllFeasible ==
    Advised => \A i \in 1..Len(suggestions) : suggestions[i].feasible

-----------------------------------------------------------------------------
(* Properties of the Fixture Difficulty Estimator (FixtureSpec) *)

\* main has stored the analysis of the assembled context
Estimated == pc = "summarize" /\ HasKey(context, "analysis")

\* the fixtures of the upcoming window and the report on them
WindowFixtures == context.fixtures.next6_gw
Report == context.analysis.fixtures_difficulty

\* the fixtures of the window a team plays at home, and away
HomeOf(team) == {i \in 1..Len(WindowFixtures) : WindowFixtures[i].team_h = team}
AwayOf(team) == {i \in 1..Len(WindowFixtures) : WindowFixtures[i].team_a = team}

TeamsInWindow ==
    {WindowFixtures[i].team_h : i \in 1..Len(WindowFixtures)}
    \cup {WindowFixtures[i].team_a : i \in 1..Len(WindowFixtures)}

\* the rating of a side, 3 when the fixture has none
RatingOr3(fixture, key) == IF key \in DOMAIN fixture THEN fixture[key] ELSE 3

\* the sum of the ratings of a team's own side over its fixtures
RatingSum(team) ==
    SumOver(HomeOf(team),
            [i \in HomeOf(team) |-> RatingOr3(WindowFixtures[i], "team_h_difficulty")])
    + SumOver(AwayOf(team),
              [i \in AwayOf(team) |-> RatingOr3(WindowFixtures[i], "team_a_difficulty")])

Appearances(team) == Cardinality(HomeOf(team)) + Cardinality(AwayOf(team))

\* the name the report lists a team under
ReportName(team) == TeamName(build_team_lookup(boot.teams), team)

\* C12: the report has an entry for each team of a window fixture and for
\* no other team; its fixture_count is the number of fixtures the team
\* appears in, and its avg_difficulty is the sum of the ratings of the
\* team's side (3 for a missing one) divided by that count.
C12_ExactAverage ==
    Estimated =>
        /\ DOMAIN Report = {ReportName(t) : t \in TeamsInWindow}
        /\ \A t \in TeamsInWindow :
              /\ Report[ReportName(t)].fixture_count = Appearances(t)
              /\ Report[ReportName(t)].avg_difficulty.hundredths * Appearances(t)
                    = 100 * RatingSum(t)

\* C12, as the estimator keeps it: the same, with avg_difficulty the quotient
\* rounded to two decimals, that is, the number of hundredths nearest to it.
C12_RoundedAverage ==
    Estimated =>
        /\ DOMAIN Report = {ReportName(t) : t \in TeamsInWindow}
        /\ \A t \in TeamsInWindow :
              LET off == Report[ReportName(t)].avg_difficulty.hundredths * Appearances(t)
                            - 100 * RatingSum(t)
              IN  /\ Report[ReportName(t)].fixture_count = Appearances(t)
                  /\ 2 * off <= Appearances(t)
                  /\ -2 * off <= Appearances(t)

\* a team of three fixtures, one of them without a rating, whose average has
\* no two-decimal value, reported next to a team of no fixture
C12_Witness ==
    /\ Estimated
    /\ \E t \in TeamsInWindow :
          /\ Appearances(t) = 3
          /\ (100 * RatingSum(t)) % 3 # 0
          /\ \E i \in HomeOf(t) : ~HasKey(WindowFixtures[i], "team_h_difficulty")
          /\ Report[ReportName(t)].fixture_count = 3
    /\ \E t \in {1, 2, 3} : t \notin TeamsInWindow

-----------------------------------------------------------------------------
(* Properties of template population (TemplateSpec) *)

\* text[i..j] is a placeholder {{NAME}}: NAME is not empty and has no brace
IsPlaceholderAt(text, i, j) ==
    /\ i + 4 <= j
    /\ j <= Len(text)
    /\ text[i] = "{" /\ text[i + 1] = "{"
    /\ text[j - 1] = "}" /\ text[j] = "}"
    /\ \A k \in (i + 2)..(j - 2) : text[k] \notin {"{", "}"}

\* the placeholders of a text whose NAME is no key of the variable map
UnresolvedPlaceholders(text) ==
    {SubSeq(text, i, j) : <<i, j>> \in
        {ij \in (1..Len(text)) \X (1..Len(text)) :
            /\ IsPlaceholderAt(text, ij[1], ij[2])
            /\ \A n \in 1..Len(VariableNames) :
                  SubSeq(text, ij[1] + 2, ij[2] - 2) # NameText(VariableNames[n])}}

Contains(text, part) ==
    \E i \in 1..(Len(text) - Len(part) + 1) : SubSeq(text, i, i + Len(part) - 1) = part

\* C9: the populated text is a function of the template and the variable
\* map alone (both implementations of the substitution give the same text
\* for the same template and map), and every placeholder {{NAME}} of the
\* template whose NAME is no key of the map stands verbatim in the output.
C9_UnresolvedVerbatim ==
    /\ (prompt # None) =>
          \A q \in UnresolvedPlaceholders(template.text) : Contains(prompt.text, q)
    /\ (companion # None) =>
          \A q \in UnresolvedPlaceholders(template.text) : Contains(companion.text, q)
    /\ (prompt # None /\ companion # None) => prompt.text = companion.text

\* a template with a resolved and an unresolved placeholder, populated by
\* both implementations
C9_Witness ==
    /\ prompt # None
    /\ companion # None
    /\ UnresolvedPlaceholders(template.text) # {}
    /\ Contains(template.text, Placeholder(NameText("GW")))
    /\ prompt.text # template.text

-----------------------------------------------------------------------------
(* Properties of the pipeline (Spec) *)

AllVariableNames == {VariableNames[n] : n \in 1..Len(VariableNames)}

\* main is past extract_prompt_variables in a run with --populate-prompt
Extracted == args.populate_prompt /\ pc \in {"populate", "done", "companion_done"}

\* the chips the team detail reports as available, none under the sentinel
FetchedAvailableChips ==
    IF HasKey(fetched.myteam, "chips") THEN AvailableChips(fetched.myteam.chips) ELSE <<>>

\* C1: the companion entry point, run on the context file the pipeline wrote
\* and on the same template, writes the populated text that the pipeline's
\* own population step wrote in that run.
C1_RoundTrip ==
    (pc = "companion_done" /\ prompt # None) =>
        /\ companion.status = "written"
        /\ companion.text = prompt.text

\* the steps of main up to the write of the context file, in order
StepsToWrite ==
    <<"fetch_catalog", "fetch_fixtures_this", "fetch_fixtures_upcoming", "fetch_live",
      "fetch_picks", "fetch_history", "fetch_myteam", "assemble", "analyze",
      "summarize", "validate", "restructure", "write">>

\* the catalog is fetched and the write step is still ahead
OnTheWayToWrite ==
    boot # None /\ \E n \in 1..(Len(StepsToWrite) - 1) : pc = StepsToWrite[n]

\* C2: once the catalog fetch has succeeded, whatever the six other fetches
\* return (payload or error sentinel), the run reaches the step that writes
\* the context file: main is straight-line code, and every step it takes on
\* the way is the next one of StepsToWrite, never the exit through an
\* exception; a run ends in failure only through the catalog fetch or the
\* write.
C2_ReachesWrite ==
    /\ [][OnTheWayToWrite =>
            \E n \in 1..(Len(StepsToWrite) - 1) :
                pc = StepsToWrite[n] /\ pc' = StepsToWrite[n + 1]]_vars
    /\ [](pc = "failed" => failure \in {"catalog", "write"})

\* the write step reached with the error sentinel for all six fetches
C2_Witness ==
    /\ pc = "write"
    /\ \A name \in DOMAIN fetched : fetched[name] = ErrorSentinel

\* C4: in a run whose team detail is a valid payload with transfers limit L
\* and made M, the extracted variable FT is L - M.
C4_FreeTransfers ==
    (Extracted /\ HasKey(fetched.myteam, "transfers")) =>
        /\ variables # None
        /\ variables.FT = Str(fetched.myteam.transfers.limit - fetched.myteam.transfers.made)

\* C5: in a run whose team detail is the error sentinel, the extracted
\* variable FT is 1 and the warnings of the written context hold the
\* authentication advisory.
C5_DefaultFreeTransfer ==
    (Extracted /\ HasKey(fetched.myteam, "_error")) =>
        /\ variables # None
        /\ variables.FT = Str(1)
        /\ InSeq(AuthWarning, outfile.json.IMPORTANT_READ_FIRST.summary.data_quality_warnings)

\* C10: extraction gives exactly GW, BANK, FT and CHIPS_AVAILABLE, the last
\* being the available chips' names joined by ", ", or "None" when no chip
\* is available; for the pipeline's extractor and for the companion's.
C10_FourVariables ==
    /\ (Extracted /\ variables # None) =>
          /\ DOMAIN variables = AllVariableNames
          /\ variables.CHIPS_AVAILABLE =
                (IF FetchedAvailableChips # <<>> THEN Join(FetchedAvailableChips) ELSE NoneText)
    /\ (pc = "companion_done" /\ companion.status = "written") =>
          /\ DOMAIN companion.variables = AllVariableNames
          /\ companion.variables.CHIPS_AVAILABLE =
                (IF FetchedAvailableChips # <<>> THEN Join(FetchedAvailableChips) ELSE NoneText)

====
